---- MODULE Spec2Model ----
(***************************************************************************)
(* A model of serial_monitor.py: the SerialPipeline class (one serial      *)
(* port, framed into delimiter-terminated records) and main(), the driver  *)
(* that opens every port, polls them round-robin until KeyboardInterrupt,  *)
(* closes them and optionally dumps their records to files.                *)
(*                                                                         *)
(* Two specifications share the pipeline operators:                        *)
(*   SpecFraming  one byte sequence fed to SerialPipeline objects, whole   *)
(*                or in chunks (the framing algorithm on its own);         *)
(*   Spec         main() with its ports, the interrupt, close and dump.    *)
(***************************************************************************)
EXTENDS Integers, Sequences, FiniteSets, TLC

\* ------------------------------------------------------------------ bounds
\* Longest byte sequence fed to a pipeline in SpecFraming.
MaxLen == 4
\* Most update() calls made on the chunk-fed pipelines in SpecFraming.
MaxPolls == 3
\* Most bytes the devices send in Spec, all ports together.
MaxRx == 3

\* --------------------------------------------------------- input alphabets
\* '\n', the default delimiter (line 106).
LF == 10
\* Bytes a device may send: '\n', 'A', and the two bytes of the UTF-8
\* encoding of U+00E9 (0xC3 0xA9), each of which alone is not valid UTF-8.
Bytes == {LF, 65, 195, 169}
\* Bytes a device may send in Spec: '\n', 'A' and a lone 0xC3.
WireBytes == {LF, 65, 195}
\* Characters given with -d, as code points: '\n' (also the default, line
\* 106) and 'é' (U+00E9).
DelimChars == {LF, 233}

\* bytes(param, ENCODING_SCHEME) for a param of the one character cp
\* (lines 6, 112): its UTF-8 encoding.
bytes_(cp) ==
    IF cp < 128 THEN <<cp>>
    ELSE IF cp < 2048 THEN <<192 + (cp \div 64), 128 + (cp % 64)>>
    ELSE IF cp < 65536
         THEN <<224 + (cp \div 4096), 128 + ((cp \div 64) % 64),
                128 + (cp % 64)>>
    ELSE <<240 + (cp \div 262144), 128 + ((cp \div 4096) % 64),
           128 + ((cp \div 64) % 64), 128 + (cp % 64)>>

\* Values of the delimeter argument of main: b'\n' (the default) and
\* bytes('é', 'utf-8'), a one-character delimiter of two bytes.
Delimeters == {bytes_(c) : c \in DelimChars}
\* The ports named on the command line.
ports == <<"COM1", "COM3">>

VARIABLES
    \* ---- arguments of main (lines 53, 103-114)
    delimeter,      \* the delimeter argument, a byte string
    verbose,        \* the -v flag
    save_to_file,   \* the -f flag
    \* ---- SpecFraming: one input, three pipelines
    inp,            \* the byte sequence the device sends
    sent,           \* how many bytes of inp the chunk-fed pipelines have read
    chunks,         \* the sizes of the chunks read so far, one per update() call
    whole,          \* run of a pipeline that reads inp in a single update()
    split,          \* run of a pipeline that reads inp in chunks
    twin,           \* as split, with the other value of verbose
    \* ---- Spec: main()
    pc,             \* where main is: Starting, Running, Closing, Dumping, Terminated
    exc,            \* the exception that ended the process, or "none"
    idx,            \* position of the current for loop in the port list (1-based)
    pipelines,      \* main's list of SerialPipeline objects
    rx,             \* per port: bytes received by the OS and not yet read
    console,        \* what has been printed
    files,          \* per port: whether <port>_data.txt exists, and its content
    \* ---- Spec: history (not read by the program)
    taken,          \* per port: every byte read from the connection so far
    arrived,        \* the port of each byte the devices sent, in order of arrival
    log,            \* failed opens, close() and file_dump() calls, in order
    round_,         \* ports polled so far in the current pass of the for loop
    emitted,        \* port of each record appended in the current pass, in order
    shown           \* port of each line printed in the current pass, in order

cfgVars == <<delimeter, verbose, save_to_file>>
framingVars == <<inp, sent, chunks, whole, split, twin>>
mainVars == <<pc, exc, idx, pipelines, rx, console, files>>
histVars == <<taken, arrived, log, round_, emitted, shown>>
vars == <<cfgVars, framingVars, mainVars, histVars>>

\* ------------------------------------------------------------ conversions

\* int.from_bytes(b, byteorder="little") (lines 5, 21).
RECURSIVE int_from_bytes(_)
int_from_bytes(b) ==
    IF b = <<>> THEN 0 ELSE Head(b) + 256 * int_from_bytes(Tail(b))

IsCont(b) == b >= 128 /\ b <= 191

\* Length of the UTF-8 sequence that lead byte b0 starts, 0 if b0 cannot
\* start one (a continuation byte, 0xC0, 0xC1, 0xF5..0xFF).
Utf8Len(b0) ==
    IF b0 < 128 THEN 1
    ELSE IF b0 >= 194 /\ b0 <= 223 THEN 2
    ELSE IF b0 >= 224 /\ b0 <= 239 THEN 3
    ELSE IF b0 >= 240 /\ b0 <= 244 THEN 4
    ELSE 0

\* The first n bytes of s are one well-formed UTF-8 sequence (no overlong
\* form, no surrogate, nothing above U+10FFFF).
Utf8WellFormed(s, n) ==
    /\ n >= 1
    /\ Len(s) >= n
    /\ \A i \in 2..n : IsCont(s[i])
    /\ (s[1] = 224) => s[2] >= 160
    /\ (s[1] = 237) => s[2] <= 159
    /\ (s[1] = 240) => s[2] >= 144
    /\ (s[1] = 244) => s[2] <= 143

\* The code point of the well-formed sequence in the first n bytes of s.
Utf8CodePoint(s, n) ==
    IF n = 1 THEN s[1]
    ELSE IF n = 2 THEN (s[1] - 192) * 64 + (s[2] - 128)
    ELSE IF n = 3 THEN (s[1] - 224) * 4096 + (s[2] - 128) * 64 + (s[3] - 128)
    ELSE (s[1] - 240) * 262144 + (s[2] - 128) * 4096
             + (s[3] - 128) * 64 + (s[4] - 128)

\* bytearray.decode('utf-8') (lines 6, 35): the code points of s, and ok =
\* FALSE where Python raises UnicodeDecodeError.
RECURSIVE decode(_)
decode(s) ==
    IF s = <<>> THEN [ok |-> TRUE, text |-> <<>>]
    ELSE LET n == Utf8Len(s[1]) IN
         IF ~Utf8WellFormed(s, n) THEN [ok |-> FALSE, text |-> <<>>]
         ELSE LET rest == decode(SubSeq(s, n + 1, Len(s))) IN
              [ok |-> rest.ok,
               text |-> IF rest.ok THEN <<Utf8CodePoint(s, n)>> \o rest.text
                        ELSE <<>>]

\* ---------------------------------------------------------- SerialPipeline

\* SerialPipeline.__init__ once serial.Serial() has opened the port
\* (lines 19-25).
SerialPipeline(port_name, delim, verb) ==
    [port_name |-> port_name,
     is_open   |-> TRUE,
     delimeter |-> int_from_bytes(delim),
     verbose   |-> verb,
     cache     |-> <<>>,
     lines     |-> <<>>]

\* What an update() call leaves: the pipeline, the lines it printed, whether
\* it raised, how many bytes of its data the for loop finished, and how
\* many times it called serial_port.read.
Returned(self) ==
    [self |-> self, printed |-> <<>>, raised |-> FALSE, done |-> 0, reads |-> 0]

\* The loop body with the cache itself appended to lines and then cleared
\* in place (no bytes() copy, no new bytearray): every record is the one
\* bytearray and shows whatever the cache holds.
for_body_aliased(r, data_byte) ==
    LET self == r.self IN
    IF data_byte = self.delimeter
    THEN LET d == decode(self.cache) IN
         IF self.verbose /\ ~d.ok
         THEN [r EXCEPT !.raised = TRUE]
         ELSE [r EXCEPT !.self = [self EXCEPT
                                     !.lines = [k \in 1..(Len(@) + 1) |-> <<>>],
                                     !.cache = <<>>],
                        !.printed = IF self.verbose
                                    THEN Append(@, <<self.port_name, ": ", d.text>>)
                                    ELSE @,
                        !.done = @ + 1]
    ELSE LET c == Append(self.cache, data_byte) IN
         [r EXCEPT !.self = [self EXCEPT
                                !.lines = [k \in 1..Len(@) |-> c],
                                !.cache = c],
                   !.done = @ + 1]

\* The body of the for loop of update() for one byte (lines 34-39). A
\* verbose pipeline decodes the cache before it appends the record: where
\* decode raises, nothing of the branch after it has happened.
for_body(r, data_byte) ==
    LET self == r.self IN
    IF data_byte = self.delimeter
    THEN LET d == decode(self.cache) IN
         IF self.verbose /\ ~d.ok
         THEN [r EXCEPT !.raised = TRUE]
         ELSE [r EXCEPT !.self = [self EXCEPT !.lines = Append(@, self.cache),
                                              !.cache = <<>>],
                        !.printed = IF self.verbose
                                    THEN Append(@, <<self.port_name, ": ", d.text>>)
                                    ELSE @,
                        !.done = @ + 1]
    ELSE [r EXCEPT !.self.cache = Append(@, data_byte), !.done = @ + 1]

\* for data_byte in data (line 33), left when the body raises.
RECURSIVE for_loop(_, _)
for_loop(r, data) ==
    IF data = <<>> \/ r.raised THEN r
    ELSE for_loop(for_body(r, Head(data)), Tail(data))

\* update() with the cache a local of the call: what an earlier call left
\* in the cache is forgotten.
update_forgets(self, in_waiting) ==
    IF Len(in_waiting) > 0
    THEN for_loop([Returned([self EXCEPT !.cache = <<>>]) EXCEPT !.reads = 1],
                  in_waiting)
    ELSE Returned(self)

\* update() without the test of in_waiting: it reads and loops whatever
\* the port has buffered.
update_unguarded(self, in_waiting) ==
    for_loop([Returned(self) EXCEPT !.reads = 1], in_waiting)

\* SerialPipeline.update (lines 27-39); in_waiting is what the port has
\* buffered, all of which one read() takes.
update(self, in_waiting) ==
    IF Len(in_waiting) > 0
    THEN for_loop([Returned(self) EXCEPT !.reads = 1], in_waiting)
    ELSE Returned(self)

\* close() that flushes the cache into the record list.
close_flushes(self) ==
    [self EXCEPT !.is_open = FALSE,
                 !.lines = IF self.cache # <<>> THEN Append(@, self.cache) ELSE @,
                 !.cache = <<>>]

\* SerialPipeline.close (lines 41-43).
close(self) == [self EXCEPT !.is_open = FALSE]

\* What file_dump writes (lines 49-50): every line, nothing between them.
RECURSIVE written(_)
written(lines) ==
    IF lines = <<>> THEN <<>> ELSE Head(lines) \o written(Tail(lines))

\* file_dump() that also writes the cache.
file_dump_flushes(self) == written(self.lines) \o self.cache

\* SerialPipeline.file_dump when open() and every write succeed
\* (lines 45-50): the content of the file.
file_dump(self) == written(self.lines)

\* ------------------------------------------------------------ SpecFraming
\* One device sends inp. Three pipelines read it: whole in one update(),
\* split and twin in the same chunks; twin has the other verbose flag. A
\* run that raised gets no further update(): nothing in main catches the
\* exception (lines 70-74), so the process has ended.

\* A run of a pipeline: the pipeline, all it printed, whether an update()
\* raised, the number of update() calls, of bytes their loops finished and
\* of read() calls they made.
Run(self) == [self |-> self, printed |-> <<>>, raised |-> FALSE,
              polls |-> 0, done |-> 0, reads |-> 0]

\* One more update() call of a run, with data waiting.
Poll(run, data) ==
    LET r == update(run.self, data) IN
    [self    |-> r.self,
     printed |-> run.printed \o r.printed,
     raised  |-> r.raised,
     polls   |-> run.polls + 1,
     done    |-> run.done + r.done,
     reads   |-> run.reads + r.reads]

\* Byte sequences of length at most n.
SeqsUpTo(S, n) == UNION {[1..k -> S] : k \in 0..n}

\* The variables of main, at rest in SpecFraming.
MainIdle ==
    /\ save_to_file = FALSE
    /\ pc = "Starting"
    /\ exc = "none"
    /\ idx = 1
    /\ pipelines = <<>>
    /\ rx = <<>>
    /\ console = <<>>
    /\ files = <<>>
    /\ taken = <<>>
    /\ arrived = <<>>
    /\ log = <<>>
    /\ round_ = <<>>
    /\ emitted = <<>>
    /\ shown = <<>>

InitFraming ==
    /\ delimeter \in Delimeters
    /\ verbose \in BOOLEAN
    /\ inp \in SeqsUpTo(Bytes, MaxLen)
    /\ sent = 0
    /\ chunks = <<>>
    /\ whole = Run(SerialPipeline("COM1", delimeter, verbose))
    /\ split = Run(SerialPipeline("COM1", delimeter, verbose))
    /\ twin = Run(SerialPipeline("COM1", delimeter, ~verbose))
    /\ MainIdle

\* The single update() of whole, with all of inp waiting.
PollWhole ==
    /\ whole.polls = 0
    /\ whole' = Poll(whole, inp)
    /\ UNCHANGED <<cfgVars, inp, sent, chunks, split, twin, mainVars, histVars>>

\* One update() of split and of twin, with the next n bytes of inp waiting
\* (n = 0: a poll that finds nothing).
PollChunk(n) ==
    /\ Len(chunks) < MaxPolls
    /\ ~split.raised /\ ~twin.raised
    /\ sent + n <= Len(inp)
    /\ LET data == SubSeq(inp, sent + 1, sent + n) IN
       /\ split' = Poll(split, data)
       /\ twin' = Poll(twin, data)
    /\ sent' = sent + n
    /\ chunks' = Append(chunks, n)
    /\ UNCHANGED <<cfgVars, inp, whole, mainVars, histVars>>

NextFraming ==
    \/ PollWhole
    \/ \E n \in 0..MaxLen : PollChunk(n)

SpecFraming == InitFraming /\ [][NextFraming]_vars

\* ------------------------------------------------------------------- main
\* main() (lines 53-81) and the call of it (line 114). One step per
\* iteration of each of its for loops. An exception nothing catches ends
\* the process: exc names it and no step follows.

NPorts == Len(ports)

\* The variables of SpecFraming, at rest in Spec.
FramingIdle ==
    /\ inp = <<>>
    /\ sent = 0
    /\ chunks = <<>>
    /\ whole = <<>>
    /\ split = <<>>
    /\ twin = <<>>

Init ==
    /\ delimeter \in Delimeters
    /\ verbose \in BOOLEAN
    /\ save_to_file \in BOOLEAN
    /\ pc = "Starting"
    /\ exc = "none"
    /\ idx = 1
    /\ pipelines = <<>>
    /\ rx = [i \in 1..NPorts |-> <<>>]
    /\ console = <<>>
    /\ files = [i \in 1..NPorts |-> [exists |-> FALSE, content |-> <<>>]]
    /\ taken = [i \in 1..NPorts |-> <<>>]
    /\ arrived = <<>>
    /\ log = <<>>
    /\ round_ = <<>>
    /\ emitted = <<>>
    /\ shown = <<>>
    /\ FramingIdle

\* The process is in phase p and no exception has ended it.
At(p) == pc = p /\ exc = "none"

\* A for loop that ends one pipeline early.
next_in_list_short(i) == IF i + 1 < NPorts THEN i + 1 ELSE 0

\* The port after the i-th in "for pipeline in pipelines", 0 after the last.
next_in_list(i) == IF i < NPorts THEN i + 1 ELSE 0

\* pipelines.append(SerialPipeline(name, ...)) for the i-th name, the port
\* opening (lines 65-66, 20); after the last, "All ports opened!" and the
\* while loop (lines 68-72).
Open(i) ==
    /\ At("Starting") /\ idx = i
    /\ pipelines' = Append(pipelines, SerialPipeline(ports[i], delimeter, verbose))
    /\ IF next_in_list(i) # 0
       THEN /\ idx' = next_in_list(i)
            /\ UNCHANGED <<pc, console>>
       ELSE /\ idx' = 1
            /\ pc' = "Running"
            /\ console' = Append(console, <<"All ports opened!">>)
    /\ UNCHANGED <<cfgVars, framingVars, exc, rx, files, histVars>>

\* A startup that catches the failed open and goes on without the port.
OpenFailsTolerated(i) ==
    /\ At("Starting") /\ idx = i
    /\ pipelines' = Append(pipelines,
                           close(SerialPipeline(ports[i], delimeter, verbose)))
    /\ log' = Append(log, <<"open failed", i>>)
    /\ IF i < NPorts
       THEN /\ idx' = i + 1
            /\ UNCHANGED <<pc, console>>
       ELSE /\ idx' = 1
            /\ pc' = "Running"
            /\ console' = Append(console, <<"All ports opened!">>)
    /\ UNCHANGED <<cfgVars, framingVars, exc, rx, files,
                   taken, arrived, round_, emitted, shown>>

\* serial.Serial(port_name, ...) raises for the i-th name (line 20): the
\* exception leaves __init__ and main.
OpenFails(i) ==
    /\ At("Starting") /\ idx = i
    /\ exc' = "SerialException"
    /\ log' = Append(log, <<"open failed", i>>)
    /\ UNCHANGED <<cfgVars, framingVars, pc, idx, pipelines, rx, console, files,
                   taken, arrived, round_, emitted, shown>>

\* The device on port i sends byte b; the OS buffers it while the port is
\* open.
Arrive(i, b) ==
    /\ exc = "none"
    /\ i <= Len(pipelines) /\ pipelines[i].is_open
    /\ Len(arrived) < MaxRx
    /\ rx' = [rx EXCEPT ![i] = Append(@, b)]
    /\ arrived' = Append(arrived, i)
    /\ UNCHANGED <<cfgVars, framingVars, pc, exc, idx, pipelines, console, files,
                   taken, log, round_, emitted, shown>>

\* The ports of the lines an update() printed, or of the records it added.
PortOf(i, n) == [k \in 1..n |-> i]

\* update() with a read that waits until the port has a byte.
UpdateBlocking(i) ==
    /\ At("Running") /\ idx = i
    /\ rx[i] # <<>>
    /\ LET r == update(pipelines[i], rx[i])
           first == (i = 1)
           added == Len(r.self.lines) - Len(pipelines[i].lines)
       IN /\ pipelines' = [pipelines EXCEPT ![i] = r.self]
          /\ console' = console \o r.printed
          /\ exc' = IF r.raised THEN "UnicodeDecodeError" ELSE "none"
          /\ idx' = IF r.raised THEN i
                    ELSE IF next_in_list(i) # 0 THEN next_in_list(i) ELSE 1
          /\ round_' = (IF first THEN <<>> ELSE round_) \o <<i>>
          /\ emitted' = (IF first THEN <<>> ELSE emitted) \o PortOf(i, added)
          /\ shown' = (IF first THEN <<>> ELSE shown) \o PortOf(i, Len(r.printed))
    /\ rx' = [rx EXCEPT ![i] = <<>>]
    /\ taken' = [taken EXCEPT ![i] = @ \o rx[i]]
    /\ UNCHANGED <<cfgVars, framingVars, pc, files, arrived, log>>

\* pipeline.update() for the i-th pipeline in the while loop (lines 71-73).
\* After the last pipeline the for loop starts again.
Update(i) ==
    /\ At("Running") /\ idx = i
    /\ LET r == update(pipelines[i], rx[i])
           first == (i = 1)
           added == Len(r.self.lines) - Len(pipelines[i].lines)
       IN /\ pipelines' = [pipelines EXCEPT ![i] = r.self]
          /\ console' = console \o r.printed
          /\ exc' = IF r.raised THEN "UnicodeDecodeError" ELSE "none"
          /\ idx' = IF r.raised THEN i
                    ELSE IF next_in_list(i) # 0 THEN next_in_list(i) ELSE 1
          /\ round_' = (IF first THEN <<>> ELSE round_) \o <<i>>
          /\ emitted' = (IF first THEN <<>> ELSE emitted) \o PortOf(i, added)
          /\ shown' = (IF first THEN <<>> ELSE shown) \o PortOf(i, Len(r.printed))
    /\ rx' = [rx EXCEPT ![i] = <<>>]
    /\ taken' = [taken EXCEPT ![i] = @ \o rx[i]]
    /\ UNCHANGED <<cfgVars, framingVars, pc, files, arrived, log>>

\* KeyboardInterrupt reaches the while loop between two update() calls
\* (line 74); "Closing all serial ports!" (line 75).
Interrupt ==
    /\ At("Running")
    /\ pc' = "Closing"
    /\ idx' = 1
    /\ console' = Append(console, <<"Closing all serial ports!">>)
    /\ UNCHANGED <<cfgVars, framingVars, exc, pipelines, rx, files, histVars>>

\* The try/except inside the while loop: after the last close() the
\* polling goes on.
CloseThenResume(i) ==
    /\ At("Closing") /\ idx = i
    /\ pipelines' = [pipelines EXCEPT ![i] = close(@)]
    /\ log' = Append(log, <<"close", i>>)
    /\ IF i < NPorts
       THEN idx' = i + 1 /\ pc' = pc
       ELSE idx' = 1 /\ pc' = "Running"
    /\ UNCHANGED <<cfgVars, framingVars, exc, rx, console, files,
                   taken, arrived, round_, emitted, shown>>

\* pipeline.close() for the i-th pipeline (line 76); after the last, the
\* dump loop if save_to_file (line 78), the end of main otherwise.
Close(i) ==
    /\ At("Closing") /\ idx = i
    /\ pipelines' = [pipelines EXCEPT ![i] = close(@)]
    /\ log' = Append(log, <<"close", i>>)
    /\ IF next_in_list(i) # 0
       THEN idx' = next_in_list(i) /\ pc' = pc
       ELSE idx' = 1 /\ pc' = IF save_to_file THEN "Dumping" ELSE "Terminated"
    /\ UNCHANGED <<cfgVars, framingVars, exc, rx, console, files,
                   taken, arrived, round_, emitted, shown>>

\* print and pipeline.file_dump() for the i-th pipeline (lines 79-81).
Dump(i) ==
    /\ At("Dumping") /\ idx = i
    /\ console' = Append(console, <<"Saving data from port ", pipelines[i].port_name>>)
    /\ files' = [files EXCEPT ![i] = [exists |-> TRUE,
                                      content |-> file_dump(pipelines[i])]]
    /\ log' = Append(log, <<"dump", i>>)
    /\ IF next_in_list(i) # 0
       THEN idx' = next_in_list(i) /\ pc' = pc
       ELSE idx' = 1 /\ pc' = "Terminated"
    /\ UNCHANGED <<cfgVars, framingVars, exc, pipelines, rx,
                   taken, arrived, round_, emitted, shown>>

\* A failing file_dump() that main catches and steps over: it goes on with
\* the next pipeline.
DumpFailsCaught(i, k) ==
    /\ At("Dumping") /\ idx = i
    /\ k < Len(pipelines[i].lines)
    /\ console' = Append(console, <<"Saving data from port ", pipelines[i].port_name>>)
    /\ files' = IF k < 0 THEN files
                ELSE [files EXCEPT ![i] =
                         [exists |-> TRUE,
                          content |-> written(SubSeq(pipelines[i].lines, 1, k))]]
    /\ log' = Append(log, <<"dump failed", i>>)
    /\ IF next_in_list(i) # 0
       THEN idx' = next_in_list(i) /\ pc' = pc
       ELSE idx' = 1 /\ pc' = "Terminated"
    /\ UNCHANGED <<cfgVars, framingVars, exc, pipelines, rx,
                   taken, arrived, round_, emitted, shown>>

\* file_dump() of the i-th pipeline raises OSError: open() fails (k = -1,
\* the file is as it was), or the write after the first k lines fails
\* (lines 48-50). Nothing catches it (lines 78-81).
DumpFails(i, k) ==
    /\ At("Dumping") /\ idx = i
    /\ k < Len(pipelines[i].lines)
    /\ console' = Append(console, <<"Saving data from port ", pipelines[i].port_name>>)
    /\ files' = IF k < 0 THEN files
                ELSE [files EXCEPT ![i] =
                         [exists |-> TRUE,
                          content |-> written(SubSeq(pipelines[i].lines, 1, k))]]
    /\ exc' = "OSError"
    /\ log' = Append(log, <<"dump failed", i>>)
    /\ UNCHANGED <<cfgVars, framingVars, pc, idx, pipelines, rx,
                   taken, arrived, round_, emitted, shown>>

Next ==
    \/ \E i \in 1..NPorts : Open(i)
    \/ \E i \in 1..NPorts : OpenFails(i)
    \/ \E i \in 1..NPorts, b \in WireBytes : Arrive(i, b)
    \/ \E i \in 1..NPorts : Update(i)
    \/ Interrupt
    \/ \E i \in 1..NPorts : Close(i)
    \/ \E i \in 1..NPorts : Dump(i)
    \/ \E i \in 1..NPorts, k \in -1..MaxRx : DumpFails(i, k)

Spec == Init /\ [][Next]_vars

\* main as far as its polling goes: a run that saves no file, from the
\* start to the return of main after the last close().
InitPolling == Init /\ ~save_to_file

NextPolling ==
    \/ \E i \in 1..NPorts : Open(i)
    \/ \E i \in 1..NPorts : OpenFails(i)
    \/ \E i \in 1..NPorts, b \in WireBytes : Arrive(i, b)
    \/ \E i \in 1..NPorts : Update(i)
    \/ Interrupt
    \/ \E i \in 1..NPorts : Close(i)

\* `while True` (line 71) has nothing to wait on, so as long as an update()
\* call is the next thing for main to do, it is made. Nothing is assumed
\* of the devices or of the interrupt.
SpecPolling ==
    InitPolling /\ [][NextPolling]_vars /\ WF_vars(\E i \in 1..NPorts : Update(i))

\* ------------------------------------------------- what framing should give

\* The positions of byte d in s.
DelimAt(s, d) == {i \in 1..Len(s) : s[i] = d}

\* The position of the i-th d in s (0 for i = 0).
NthDelim(s, d, i) ==
    IF i = 0 THEN 0
    ELSE CHOOSE p \in DelimAt(s, d) :
             Cardinality({q \in DelimAt(s, d) : q <= p}) = i

\* The records of s: one per d in s, the i-th the bytes strictly between
\* the (i-1)-th and the i-th d.
Framed(s, d) ==
    [i \in 1..Cardinality(DelimAt(s, d)) |->
        SubSeq(s, NthDelim(s, d, i - 1) + 1, NthDelim(s, d, i) - 1)]

\* The bytes of s after its last d (all of s if it has none).
Tail_(s, d) ==
    SubSeq(s, NthDelim(s, d, Cardinality(DelimAt(s, d))) + 1, Len(s))

\* s with every d removed.
RECURSIVE Stripped(_, _)
Stripped(s, d) ==
    IF s = <<>> THEN <<>>
    ELSE IF Head(s) = d THEN Stripped(Tail(s), d)
    ELSE <<Head(s)>> \o Stripped(Tail(s), d)

\* The bytes the chunk-fed pipelines have read from the connection.
Consumed == SubSeq(inp, 1, sent)

\* -------------------------------------------------------- claims, framing

\* C1 (as claimed): once a pipeline has read all of a byte sequence with k
\* delimiter bytes through its update() calls, its record list is the k
\* records between the delimiters, in order, none holding the delimiter.
C1_FramingCorrectness ==
    sent = Len(inp) =>
        /\ Len(split.self.lines) = Cardinality(DelimAt(inp, split.self.delimeter))
        /\ split.self.lines = Framed(inp, split.self.delimeter)
        /\ \A i \in 1..Len(split.self.lines) :
               DelimAt(split.self.lines[i], split.self.delimeter) = {}

\* C1, what does hold: the same, of a pipeline that is not verbose.
C1_FramingCorrectnessQuiet ==
    \A run \in {split, twin} :
        (sent = Len(inp) /\ ~run.self.verbose) =>
            run.self.lines = Framed(inp, run.self.delimeter)

\* C2: once the whole sequence has been read (or the update() that raised
\* has ended the process), the pipeline fed in chunks and the pipeline fed
\* in a single update() have the same record list and the same cache.
C2_SplitEqualsWhole ==
    (whole.polls = 1 /\ (sent = Len(inp) \/ split.raised)) =>
        /\ split.self.lines = whole.self.lines
        /\ split.self.cache = whole.self.cache

\* C2 witness: "AA\nA" read as "A", nothing, "A\nA": the first chunk ends in
\* the middle of a record, the second poll finds no byte.
C2_Witness ==
    /\ inp = <<65, 65, LF, 65>>
    /\ delimeter = <<LF>>
    /\ chunks = <<1, 0, 3>>
    /\ whole.polls = 1
    /\ split.self.lines = <<<<65, 65>>>>
    /\ split.self.cache = <<65>>

\* C4 (as claimed): the cache never holds the delimiter; it is empty when
\* the last byte consumed is the delimiter; otherwise it is what was
\* consumed after the last delimiter.
C4_CacheInvariant ==
    LET d == split.self.delimeter
        cache == split.self.cache
    IN /\ DelimAt(cache, d) = {}
       /\ (sent > 0 /\ inp[sent] = d) => cache = <<>>
       /\ (sent > 0 /\ inp[sent] # d) => cache = Tail_(Consumed, d)

\* C4, what does hold: the same of a pipeline that is not verbose, and of
\* any pipeline the first clause.
C4_CacheInvariantQuiet ==
    \A run \in {split, twin} :
        /\ DelimAt(run.self.cache, run.self.delimeter) = {}
        /\ ~run.self.verbose => run.self.cache = Tail_(Consumed, run.self.delimeter)

\* C9 (as claimed): two pipelines that differ only in verbose and have had
\* the same update() calls have the same record list and the same cache.
C9_VerboseIndependent ==
    /\ split.self.lines = twin.self.lines
    /\ split.self.cache = twin.self.cache

\* ----------------------------------------------------------- claims, main

\* The delimiter every pipeline of main stores.
Delim == int_from_bytes(delimeter)

\* How often event <<kind, i>> is in the log.
Calls(kind, i) == Cardinality({k \in 1..Len(log) : log[k] = <<kind, i>>})

\* file_dump() of the i-th pipeline has returned.
Dumped(i) == Calls("dump", i) > 0

\* The bytes of s up to its last d, that one included.
UpToLast(s, d) == SubSeq(s, 1, NthDelim(s, d, Cardinality(DelimAt(s, d))))

\* The interrupt has been handled.
Interrupted == pc \in {"Closing", "Dumping", "Terminated"}

\* C3 (as claimed): what file_dump wrote for a port is everything the
\* pipeline read from it, with the delimiter bytes removed.
C3_DumpRoundTrip ==
    \A i \in 1..NPorts :
        Dumped(i) => /\ files[i].exists
                     /\ files[i].content = Stripped(taken[i], Delim)

\* C3 (amended): what file_dump wrote for a port is what the pipeline read
\* from it up to the last delimiter byte, with the delimiter bytes removed.
C3_DumpRoundTripAmended ==
    \A i \in 1..NPorts :
        Dumped(i) => /\ files[i].exists
                     /\ files[i].content = Stripped(UpToLast(taken[i], Delim), Delim)

\* C3 witness: "A\nA" was read from COM1, closed and dumped: the file holds "A".
C3_Witness ==
    /\ Dumped(1)
    /\ taken[1] = <<65, LF, 65>>
    /\ files[1].content = <<65>>
    /\ ~pipelines[1].is_open

\* C5 (as claimed): in the polling loop every pipeline is open; in the dump
\* step every pipeline is closed; close() is never called twice on a
\* pipeline, and once the polling loop has been left for good (main is
\* dumping or has ended) it has been called once on each.
C5_OpenClosed ==
    /\ At("Running") => \A i \in 1..NPorts : pipelines[i].is_open
    /\ pc = "Dumping" => \A i \in 1..NPorts : ~pipelines[i].is_open
    /\ \A i \in 1..NPorts : Calls("close", i) <= 1
    /\ (pc \in {"Dumping", "Terminated"} \/ (pc = "Running" /\ exc # "none"))
           => \A i \in 1..NPorts : Calls("close", i) = 1

\* C5, what does hold: the same when the loop is left by the interrupt.
C5_OpenClosedOnInterrupt ==
    /\ At("Running") => \A i \in 1..NPorts : pipelines[i].is_open
    /\ pc = "Dumping" => \A i \in 1..NPorts : ~pipelines[i].is_open
    /\ \A i \in 1..NPorts : Calls("close", i) <= 1
    /\ pc \in {"Dumping", "Terminated"} => \A i \in 1..NPorts : Calls("close", i) = 1

\* What C6 as claimed and C6 as amended share: a failed open ends the
\* process in startup, the ports after it are never opened, no pipeline is
\* ever polled and "All ports opened!" is never printed.
StartupFails(i) ==
    /\ exc = "SerialException"
    /\ pc = "Starting"
    /\ Len(pipelines) = i - 1
    /\ round_ = <<>>
    /\ \A j \in 1..NPorts : taken[j] = <<>>
    /\ console = <<>>

\* C6 (as claimed): a failed open ends startup as above, and no pipeline
\* opened before it is still open.
C6_FatalStartup ==
    \A i \in 1..NPorts :
        Calls("open failed", i) > 0 =>
            /\ StartupFails(i)
            /\ \A j \in 1..Len(pipelines) : ~pipelines[j].is_open

\* C6 (amended): a failed open ends startup as above; main closes none of
\* the pipelines opened before it, which stay open until the process is gone.
C6_FatalStartupAmended ==
    \A i \in 1..NPorts :
        Calls("open failed", i) > 0 =>
            /\ StartupFails(i)
            /\ \A j \in 1..Len(pipelines) :
                   pipelines[j].is_open /\ Calls("close", j) = 0

\* C6 witness: COM1 opened and received a byte, then COM3 failed to open.
C6_Witness ==
    /\ log = <<<<"open failed", 2>>>>
    /\ Len(pipelines) = 1
    /\ rx[1] # <<>>

\* The close() and file_dump() calls made so far, in order.
CallsMade ==
    [k \in 1..Len(log) |->
        IF log[k][1] = "dump failed" THEN <<"dump", log[k][2]>> ELSE log[k]]

\* The calls of a shutdown: close() on every pipeline in list order, then
\* file_dump() on every pipeline in list order if save_to_file.
Shutdown ==
    [k \in 1..NPorts |-> <<"close", k>>]
        \o (IF save_to_file THEN [k \in 1..NPorts |-> <<"dump", k>>] ELSE <<>>)

IsPrefix(s, t) == Len(s) <= Len(t) /\ s = SubSeq(t, 1, Len(s))

\* The calls made are those of a shutdown, as far as it has come.
ShutdownOrder ==
    /\ Interrupted => IsPrefix(CallsMade, Shutdown)
    /\ pc = "Running" => log = <<>>
    /\ pc = "Terminated" => (exc = "none" /\ CallsMade = Shutdown)

\* A step enters the phases in order, dumps exactly if save_to_file, and
\* polls nothing once the interrupt has been handled.
PhaseStep ==
    /\ pc' # pc =>
          \/ pc = "Starting" /\ pc' = "Running"
          \/ pc = "Running" /\ pc' = "Closing"
          \/ pc = "Closing" /\ pc' = "Dumping" /\ save_to_file
          \/ pc = "Closing" /\ pc' = "Terminated" /\ ~save_to_file
          \/ pc = "Dumping" /\ pc' = "Terminated"
    /\ Interrupted =>
          /\ taken' = taken
          /\ round_' = round_
          /\ \A i \in 1..NPorts :
                 /\ pipelines'[i].lines = pipelines[i].lines
                 /\ pipelines'[i].cache = pipelines[i].cache

\* C7: after the interrupt main calls close() on every pipeline in list
\* order, then file_dump() on every pipeline in list order exactly if
\* save_to_file, then ends; the phases follow each other in the one order
\* Starting, Running, Closing, Dumping, Terminated, and no update() is
\* called once the interrupt has been handled.
C7_ShutdownSequence == [](ShutdownOrder) /\ [][PhaseStep]_vars

\* C7 witness: main ended after closing and dumping both ports; a byte that
\* reached COM3 after the interrupt was never read.
C7_Witness ==
    /\ pc = "Terminated"
    /\ save_to_file
    /\ log = <<<<"close", 1>>, <<"close", 2>>, <<"dump", 1>>, <<"dump", 2>>>>
    /\ taken[1] # <<>>
    /\ rx[2] # <<>>

NonDecreasing(s) == \A k \in 1..(Len(s) - 1) : s[k] <= s[k + 1]

\* C8: in each pass of the polling loop the pipelines are polled once each
\* in list order, so the records appended and the lines printed in one pass
\* are in list order of their ports, and a verbose run prints exactly the
\* records it appends.
C8_ListOrder ==
    /\ round_ = [k \in 1..Len(round_) |-> k]
    /\ Len(round_) <= NPorts
    /\ (At("Running") /\ round_ # <<>>) => idx = (Len(round_) % NPorts) + 1
    /\ NonDecreasing(emitted)
    /\ NonDecreasing(shown)
    /\ shown = IF verbose THEN emitted ELSE <<>>

\* C8 witness: the byte of COM3 arrived before that of COM1, both ended a
\* record in the same pass, and COM1's was appended and printed first.
C8_Witness ==
    /\ arrived = <<2, 1>>
    /\ verbose
    /\ emitted = <<1, 2>>
    /\ shown = <<1, 2>>
    /\ console = <<<<"All ports opened!">>, <<"COM1", ": ", <<>>>>, <<"COM3", ": ", <<>>>>>>

\* C10: once the interrupt has been handled, the record list of each
\* pipeline is the complete records of what it read and its cache still
\* holds what it read after the last delimiter; a file written holds the
\* records and nothing of the cache; a pipeline that read no delimiter has
\* no record and its file is empty.
C10_PartialDiscarded ==
    \A i \in 1..NPorts :
        Interrupted =>
            /\ pipelines[i].lines = Framed(taken[i], Delim)
            /\ pipelines[i].cache = Tail_(taken[i], Delim)
            /\ Dumped(i) => files[i].content = written(Framed(taken[i], Delim))
            /\ DelimAt(taken[i], Delim) = {} =>
                   /\ pipelines[i].lines = <<>>
                   /\ files[i].content = <<>>
                   /\ Dumped(i) => files[i].exists

\* C10 witness: COM1 read "AA" and no delimiter; it was closed and dumped
\* with "AA" in its cache, and its file is empty.
C10_Witness ==
    /\ pc = "Terminated"
    /\ Dumped(1)
    /\ taken[1] = <<65, 65>>
    /\ pipelines[1].cache = <<65, 65>>
    /\ pipelines[1].lines = <<>>
    /\ files[1] = [exists |-> TRUE, content |-> <<>>]

\* C11 (as claimed): the terminator a pipeline stores is one byte value, that
\* of the delimiter character given on the command line, and every byte
\* read that equals it ends a record.
C11_TerminatorIsByte ==
    \A i \in 1..Len(pipelines) : \A c \in DelimChars :
        delimeter = bytes_(c) =>
            /\ pipelines[i].delimeter \in 0..255
            /\ c < 128 => pipelines[i].delimeter = c
            /\ exc = "none" =>
                   Len(pipelines[i].lines)
                       = Cardinality(DelimAt(taken[i], pipelines[i].delimeter))

\* C11, what does hold: the same for a delimiter character of one byte
\* (an ASCII character).
C11_TerminatorAscii ==
    \A i \in 1..Len(pipelines) : \A c \in DelimChars :
        (delimeter = bytes_(c) /\ c < 128) =>
            /\ pipelines[i].delimeter = c
            /\ exc = "none" =>
                   Len(pipelines[i].lines) = Cardinality(DelimAt(taken[i], c))

\* C12: an update() that finds no byte waiting changes nothing of its
\* pipeline (cache, lines), reads nothing from the port and prints nothing:
\* all it leaves is one more call made.
C12_EmptyPollNoOp ==
    [][chunks' = Append(chunks, 0) =>
           /\ split' = [split EXCEPT !.polls = @ + 1]
           /\ twin' = [twin EXCEPT !.polls = @ + 1]]_vars

\* C12 witness: an empty poll after a read that left a record and a
\* non-empty cache.
C12_Witness ==
    /\ Len(chunks) = 2 /\ chunks[1] > 0 /\ chunks[2] = 0
    /\ split.polls = 2 /\ split.reads = 1
    /\ split.self.lines # <<>> /\ split.self.cache # <<>>

\* C13: once file_dump() of a pipeline has failed, the exception has left
\* main (it never returns), that call is the last main made, no later
\* pipeline of the list has been dumped or has a file, and every earlier
\* one has been dumped in full.
C13_FatalDump ==
    \A i \in 1..NPorts :
        Calls("dump failed", i) > 0 =>
            /\ exc = "OSError" /\ pc = "Dumping"
            /\ log[Len(log)] = <<"dump failed", i>>
            /\ Calls("dump failed", i) = 1 /\ ~Dumped(i)
            /\ \A j \in (i + 1)..NPorts :
                   /\ ~Dumped(j) /\ Calls("dump failed", j) = 0
                   /\ ~files[j].exists
            /\ \A j \in 1..(i - 1) :
                   /\ Dumped(j) /\ Calls("dump failed", j) = 0
                   /\ files[j] = [exists |-> TRUE,
                                  content |-> file_dump(pipelines[j])]

\* C13 witness: the dump of the second port fails after the first port's
\* records were written to its file.
C13_Witness ==
    /\ Calls("dump failed", 2) > 0
    /\ files[1].exists /\ files[1].content # <<>>
    /\ pipelines[2].lines # <<>>

\* C13, the other case: the dump of the first port fails in the middle of
\* its writes and the second port, which holds records, gets no file.
C13_WitnessFirst ==
    /\ Calls("dump failed", 1) > 0
    /\ files[1].exists
    /\ pipelines[2].lines # <<>> /\ ~files[2].exists

\* C14: in every step of main (an update(), a close(), a file_dump(), or
\* any other) the record list of each pipeline before the step is a prefix
\* of its record list after it: records are only added at the end, none is
\* removed, moved or changed.
C14_AppendOnly ==
    [][\A i \in 1..Len(pipelines) :
           IsPrefix(pipelines[i].lines, pipelines'[i].lines)]_vars

\* C14 witness: a port emitted a non-empty record, its cache was filled
\* again afterwards, and it was closed and dumped with the record intact.
C14_Witness ==
    /\ Dumped(1)
    /\ pipelines[1].lines = <<<<65>>>>
    /\ pipelines[1].cache # <<>>

\* C15: while main polls (no interrupt, no exception has ended it), every
\* pipeline's turn to be polled comes again and again, whatever the other
\* ports deliver, and the bytes waiting on a port are read by an update():
\* a state with main polling and bytes waiting on port i is always followed
\* by one where main has left the loop or port i has nothing waiting. In
\* no step does a byte of a port go anywhere but from its buffer to what
\* its own pipeline has read.
C15_StalledPortNoBlock ==
    /\ \A i \in 1..NPorts : []<>(~At("Running") \/ idx = i)
    /\ \A i \in 1..NPorts : []<>(~At("Running") \/ rx[i] = <<>>)
    /\ [][\A i \in 1..NPorts :
              IsPrefix(taken[i] \o rx[i], taken'[i] \o rx'[i])]_vars

\* C15 witness: the first port has delivered nothing at all, and main,
\* still polling, has read two or more bytes of the second port and made
\* a record of them.
C15_Witness ==
    /\ At("Running")
    /\ Len(arrived) >= 2 /\ \A k \in 1..Len(arrived) : arrived[k] = 2
    /\ taken[1] = <<>> /\ rx[1] = <<>>
    /\ rx[2] = <<>> /\ pipelines[2].lines # <<>>

\* The bytes a pipeline accounts for: those of its records, one delimiter
\* for each record, and those in its cache.
Held(self) == Len(written(self.lines)) + Len(self.lines) + Len(self.cache)

\* C16 (as claimed): in every state, the number of bytes a pipeline has
\* read from its connection is the sum of the lengths of its records, plus
\* the number of its records, plus the length of its cache.
C16_ByteConservation ==
    /\ sent = Held(split.self)
    /\ sent = Held(twin.self)
    /\ whole.polls = 1 => Len(inp) = Held(whole.self)

\* C16, what does hold: the bytes whose loop body finished are conserved,
\* and they are all the bytes read unless an update() raised; a pipeline
\* that is not verbose conserves every byte it read.
C16_ByteConservationDone ==
    /\ \A run \in {whole, split, twin} : run.done = Held(run.self)
    /\ ~split.raised => sent = split.done
    /\ ~twin.raised => sent = twin.done
    /\ (whole.polls = 1 /\ ~whole.raised) => Len(inp) = whole.done
    /\ \A run \in {split, twin} : ~run.self.verbose => sent = Held(run.self)
    /\ split.raised => sent > Held(split.self)
====
